---- MODULE Spec2Model ----
(***************************************************************************)
(* dir2text: file discovery (src/dir2text/_util.py).                       *)
(*                                                                         *)
(* Strings are sequences of one-character strings, so that endswith,       *)
(* fnmatch and the comparison of strings are computed character by         *)
(* character.  A path is the sequence of its components, counted from the  *)
(* filesystem root (the empty sequence).                                   *)
(***************************************************************************)
EXTENDS Integers, Sequences, FiniteSets, TLC

VARIABLES fs, cfg, pc, queue, cur, pending, matches, result,
          visited, enqueued, used, warned, rejected,
          paths, cwd, rpc, ridx, resolved_paths,
          renderer, args, proc_cwd, rdpc, all_files, opened

vars == <<fs, cfg, pc, queue, cur, pending, matches, result,
          visited, enqueued, used, warned, rejected,
          paths, cwd, rpc, ridx, resolved_paths,
          renderer, args, proc_cwd, rdpc, all_files, opened>>

discVars == <<fs, cfg, pc, queue, cur, pending, matches, result,
              visited, enqueued, used, warned, rejected>>
resVars == <<paths, cwd, rpc, ridx, resolved_paths>>
rendVars == <<renderer, args, proc_cwd, rdpc, all_files, opened>>

(***************************************************************************)
(* Bounds of the model.                                                    *)
(***************************************************************************)
MaxRuleFiles == 2
MaxDenied == 1
MaxSpecs == 2

(***************************************************************************)
(* Characters and strings.                                                 *)
(***************************************************************************)
Letters == <<"a","b","c","d","e","f","g","h","i","j","k","l","m",
             "n","o","p","q","r","s","t","u","v","w","x","y","z">>

\* Code point of a character (Python compares str by code point).
Ord(c) ==
    CASE c = "!" -> 33
      [] c = "*" -> 42
      [] c = "-" -> 45
      [] c = "." -> 46
      [] c = "/" -> 47
      [] c = "2" -> 50
      [] c = "?" -> 63
      [] c = "]" -> 93
      [] OTHER -> 96 + (CHOOSE i \in 1..Len(Letters) : Letters[i] = c)

\* str.__lt__: lexicographic by code point, a proper prefix is smaller.
RECURSIVE StrLess(_, _)
StrLess(s, t) ==
    IF t = <<>> THEN FALSE
    ELSE IF s = <<>> THEN TRUE
    ELSE IF Head(s) = Head(t) THEN StrLess(Tail(s), Tail(t))
    ELSE Ord(Head(s)) < Ord(Head(t))

\* str.endswith
EndsWith(s, suffix) ==
    /\ Len(suffix) <= Len(s)
    /\ SubSeq(s, Len(s) - Len(suffix) + 1, Len(s)) = suffix

\* fnmatch.fnmatch on POSIX: '*' matches any run of characters ('/' included),
\* '?' any one character, every other character itself.
RECURSIVE FnMatch(_, _)
FnMatch(s, p) ==
    IF p = <<>> THEN s = <<>>
    ELSE IF Head(p) = "*"
         THEN FnMatch(s, Tail(p)) \/ (s # <<>> /\ FnMatch(Tail(s), p))
    ELSE IF s = <<>> THEN FALSE
    ELSE IF Head(p) = "?" THEN FnMatch(Tail(s), Tail(p))
    ELSE Head(p) = Head(s) /\ FnMatch(Tail(s), Tail(p))

(***************************************************************************)
(* Paths.                                                                  *)
(***************************************************************************)
\* str(path) of a relative path: the components joined by '/'.
RECURSIVE PathStr(_)
PathStr(p) ==
    IF p = <<>> THEN <<>>
    ELSE IF Len(p) = 1 THEN p[1]
    ELSE p[1] \o <<"/">> \o PathStr(Tail(p))

\* Path.__lt__: the comparison of the lists of components.
RECURSIVE PathLess(_, _)
PathLess(p, q) ==
    IF q = <<>> THEN FALSE
    ELSE IF p = <<>> THEN TRUE
    ELSE IF Head(p) = Head(q) THEN PathLess(Tail(p), Tail(q))
    ELSE StrLess(Head(p), Head(q))

Parent(p) == SubSeq(p, 1, Len(p) - 1)
Name(p) == p[Len(p)]

\* d is p or an ancestor of p.
IsPrefix(d, p) == Len(d) <= Len(p) /\ SubSeq(p, 1, Len(d)) = d

\* Path.relative_to(base), for a path under base.
RelativeTo(p, base) == SubSeq(p, Len(base) + 1, Len(p))

\* sorted(): insertion into a sorted list, stable.
RECURSIVE InsertSorted(_, _)
InsertSorted(x, s) ==
    IF s = <<>> THEN <<x>>
    ELSE IF PathLess(x, Head(s)) THEN <<x>> \o s
    ELSE <<Head(s)>> \o InsertSorted(x, Tail(s))

RECURSIVE Sorted(_)
Sorted(s) ==
    IF s = <<>> THEN <<>>
    ELSE InsertSorted(s[Len(s)], Sorted(SubSeq(s, 1, Len(s) - 1)))

(***************************************************************************)
(* The names and the texts the scenarios are built from.                   *)
(***************************************************************************)
\* "w"
n_w == <<"w">>
\* "p"
n_p == <<"p">>
\* "a.py"
n_a_py == <<"a",".","p","y">>
\* "b.txt"
n_b_txt == <<"b",".","t","x","t">>
\* "sub"
n_sub == <<"s","u","b">>
\* "c.txt"
n_c_txt == <<"c",".","t","x","t">>
\* "d.py"
n_d_py == <<"d",".","p","y">>
\* "index.ts"
n_index_ts == <<"i","n","d","e","x",".","t","s">>
\* "package-lock.json"
n_package_lock_json == <<"p","a","c","k","a","g","e","-","l","o","c","k",".","j","s","o","n">>
\* "poetry.lock"
n_poetry_lock == <<"p","o","e","t","r","y",".","l","o","c","k">>
\* "a-b"
n_a_b == <<"a","-","b">>
\* "a"
n_a == <<"a">>
\* "x"
n_x == <<"x">>
\* "y"
n_y == <<"y">>
\* ".git"
n_git == <<".","g","i","t">>
\* "cfg"
n_cfg == <<"c","f","g">>
\* "in"
n_in == <<"i","n">>
\* ".gitignore"
n_gitignore == <<".","g","i","t","i","g","n","o","r","e">>
\* ".dir2textignore"
n_dir2textignore == <<".","d","i","r","2","t","e","x","t","i","g","n","o","r","e">>
\* ".lock"
s_lock == <<".","l","o","c","k">>
\* ".py"
s_py == <<".","p","y">>
\* ".txt"
s_txt == <<".","t","x","t">>
\* "*.py"
s_star_py == <<"*",".","p","y">>
\* "*.txt"
s_star_txt == <<"*",".","t","x","t">>
\* "sub/*"
s_sub_star == <<"s","u","b","/","*">>
\* "!c.txt"
s_not_c_txt == <<"!","c",".","t","x","t">>
\* "sub/"
s_sub_slash == <<"s","u","b","/">>

\* "*"
s_star == <<"*">>
\* "*.md"
s_star_md == <<"*",".","m","d">>
\* "?.py"
s_q_py == <<"?",".","p","y">>
\* "zz"
s_zz == <<"z","z">>
\* "./a.py"
s_dot_a_py == <<".","/","a",".","p","y">>
\* "a]"
s_a_brk == <<"a","]">>
\* "sub//a.py"
s_sub_a_py == <<"s","u","b","/","/","a",".","p","y">>

(***************************************************************************)
(* The matcher parse_gitignore(file) returns (gitignore_parser).  A rule   *)
(* file is the sequence of its lines; the matcher is named by the rule     *)
(* file's path, its base directory is the file's directory.                *)
(***************************************************************************)
\* One line of a rule file: '!' negates, a trailing '/' is directory-only.
ParseRule(line) ==
    LET neg == line # <<>> /\ Head(line) = "!"
        body == IF neg THEN Tail(line) ELSE line
        dirOnly == body # <<>> /\ body[Len(body)] = "/"
    IN [pat |-> IF dirOnly THEN SubSeq(body, 1, Len(body) - 1) ELSE body,
        neg |-> neg, dirOnly |-> dirOnly]

\* rule.match(path): rel is the path relative to the rule file's directory.
\* A pattern without '/' matches the last component; a directory-only pattern
\* matches any component; a negated directory-only pattern needs a trailing
\* '/' in the path string, which str(Path) never has.
RuleMatch(rule, rel) ==
    IF rule.dirOnly
    THEN ~rule.neg /\ \E i \in 1..Len(rel) : FnMatch(rel[i], rule.pat)
    ELSE FnMatch(rel[Len(rel)], rule.pat)

\* The last rule of the file that matches decides: "ignore", "unignore"
\* (a negated rule) or "none" (no rule matches).
Verdict(m, path) ==
    LET rules == [i \in 1..Len(fs.rules[m]) |-> ParseRule(fs.rules[m][i])]
        rel == RelativeTo(path, Parent(m))
        hits == {i \in 1..Len(rules) : RuleMatch(rules[i], rel)}
    IN IF hits = {} THEN "none"
       ELSE LET last == CHOOSE i \in hits : \A j \in hits : j <= i
            IN IF rules[last].neg THEN "unignore" ELSE "ignore"

\* matcher(str(path)) -> bool
Matcher(m, path) == Verdict(m, path) = "ignore"

(***************************************************************************)
(* The filesystem.                                                         *)
(***************************************************************************)
FsRoot == <<>>
\* The traversal root, resolved and absolute: /w/p.
Directory == <<n_w, n_p>>

\* os.scandir(d): the entries of d.
Scandir(d) == {e \in fs.files \cup fs.dirs : Len(e) = Len(d) + 1 /\ Parent(e) = d}

\* Path.exists() of a rule file.
Exists(path) == path \in fs.files

\* Directory trees, as the regular files and the directories under the root.
Tree(files, dirs) == [files |-> files, dirs |-> dirs \cup {Directory}]

TreeNested ==
    Tree({Directory \o <<n_a_py>>, Directory \o <<n_b_txt>>,
          Directory \o <<n_sub, n_c_txt>>, Directory \o <<n_sub, n_d_py>>},
         {Directory \o <<n_sub>>})
TreeLock ==
    Tree({Directory \o <<n_index_ts>>, Directory \o <<n_package_lock_json>>,
          Directory \o <<n_poetry_lock>>}, {})
TreeOrder ==
    Tree({Directory \o <<n_a_py>>, Directory \o <<n_a_b, n_x>>,
          Directory \o <<n_a, n_y>>},
         {Directory \o <<n_a_b>>, Directory \o <<n_a>>})
TreeDeep ==
    Tree({Directory \o <<n_git, n_cfg>>, Directory \o <<n_b_txt>>,
          Directory \o <<n_sub, n_in, n_c_txt>>},
         {Directory \o <<n_git>>, Directory \o <<n_sub>>,
          Directory \o <<n_sub, n_in>>})
TreeEmpty == Tree({}, {})

\* The places a rule file may be in, and the texts it may hold.
RuleSlots ==
    {FsRoot \o <<n_gitignore>>, <<n_w>> \o <<n_gitignore>>,
     Directory \o <<n_gitignore>>, Directory \o <<n_sub, n_gitignore>>,
     Directory \o <<n_dir2textignore>>}
RuleTexts == {<<s_star_txt>>, <<s_not_c_txt>>, <<s_sub_slash>>}

\* Every placement of at most n rule files.
RuleAssignments(n) ==
    UNION {[S -> RuleTexts] : S \in {T \in SUBSET RuleSlots : Cardinality(T) <= n}}

NoRules == [x \in {} |-> <<>>]

\* The filesystem holding a tree, rule files and unreadable directories.  A
\* rule file is a regular file of its directory; it exists only where its
\* directory does.
MakeFs(tree, rules, denied) ==
    LET placed == {f \in DOMAIN rules :
                     Parent(f) \in tree.dirs \cup {FsRoot, <<n_w>>}}
    IN [dirs |-> tree.dirs \cup {FsRoot, <<n_w>>},
        files |-> tree.files \cup placed,
        rules |-> [f \in placed |-> rules[f]],
        denied |-> denied]

(***************************************************************************)
(* The configuration: the parameters of find_files_bfs.                    *)
(***************************************************************************)
\* extension None and extension '' are both false in `if extension and ...`.
NoExtension == <<>>

Config(ext, inc, exc, lock, git, d2t) ==
    [extension |-> ext, include_patterns |-> inc, exclude_patterns |-> exc,
     exclude_lock_files |-> lock, respect_gitignore |-> git,
     respect_dir2textignore |-> d2t]

DefaultConfig == Config(NoExtension, <<>>, <<>>, TRUE, TRUE, TRUE)

FilterConfigs ==
    {Config(e, i, x, l, TRUE, TRUE) :
        e \in {NoExtension, s_py, s_txt},
        i \in {<<>>, <<s_star_py>>, <<s_sub_star, s_star_txt>>},
        x \in {<<>>, <<s_star_txt>>},
        l \in BOOLEAN}

DialectConfigs ==
    {Config(NoExtension, <<>>, <<>>, TRUE, g, d) : g \in BOOLEAN, d \in BOOLEAN}

(***************************************************************************)
(* The scenarios a run starts from: a filesystem and a configuration.      *)
(***************************************************************************)
RuleScenarios ==
    {[fs |-> MakeFs(t, r, {}), cfg |-> c] :
        t \in {TreeNested, TreeDeep},
        r \in RuleAssignments(MaxRuleFiles),
        c \in DialectConfigs}

FilterScenarios ==
    {[fs |-> MakeFs(t, NoRules, {}), cfg |-> c] :
        t \in {TreeNested, TreeLock, TreeOrder, TreeEmpty},
        c \in FilterConfigs}

DeniedScenarios ==
    UNION {{[fs |-> MakeFs(t, r, d), cfg |-> DefaultConfig] :
              r \in {NoRules, (Directory \o <<n_gitignore>>) :> <<s_star_txt>>},
              d \in {D \in SUBSET t.dirs :
                       Cardinality(D) >= 1 /\ Cardinality(D) <= MaxDenied}} :
           t \in {TreeNested, TreeDeep, TreeOrder}}

Scenarios == RuleScenarios \cup FilterScenarios \cup DeniedScenarios

(***************************************************************************)
(* find_files_bfs (_util.py).                                              *)
(***************************************************************************)
IgnoreMatchers(g, d) == [gitignore |-> g, dir2textignore |-> d]

\* get_ignore_matchers(directory): the matchers of the directory's own rule
\* files, one list per dialect.
get_ignore_matchers(directory) ==
    IgnoreMatchers(
        IF Exists(directory \o <<n_gitignore>>)
        THEN <<directory \o <<n_gitignore>>>> ELSE <<>>,
        IF Exists(directory \o <<n_dir2textignore>>)
        THEN <<directory \o <<n_dir2textignore>>>> ELSE <<>>)

\* The loop `while current_dir != current_dir.parent`, started at current_dir:
\* the matchers of current_dir, then of its parent, and so on; the loop ends
\* on the directory that is its own parent, before reading it.
RECURSIVE AncestorMatchers(_)
AncestorMatchers(current_dir) ==
    IF current_dir = Parent(current_dir) THEN IgnoreMatchers(<<>>, <<>>)
    ELSE LET ignore_matchers == get_ignore_matchers(current_dir)
             rest == AncestorMatchers(Parent(current_dir))
         IN IgnoreMatchers(
                (IF cfg.respect_gitignore
                 THEN ignore_matchers.gitignore ELSE <<>>) \o rest.gitignore,
                (IF cfg.respect_dir2textignore
                 THEN ignore_matchers.dir2textignore ELSE <<>>)
                    \o rest.dir2textignore)

root_matchers ==
    IF cfg.respect_gitignore \/ cfg.respect_dir2textignore
    THEN AncestorMatchers(Directory)
    ELSE IgnoreMatchers(<<>>, <<>>)

combined_matchers(current_matchers, current_dir) ==
    LET dir_matchers == get_ignore_matchers(current_dir)
    IN IgnoreMatchers(
           current_matchers.gitignore
               \o (IF cfg.respect_gitignore THEN dir_matchers.gitignore ELSE <<>>),
           current_matchers.dir2textignore
               \o (IF cfg.respect_dir2textignore
                   THEN dir_matchers.dir2textignore ELSE <<>>))

\* The test of lines 277-289 and 319-331: any matcher of an enabled dialect.
IsIgnored(matchers, entry_path) ==
    \/ /\ cfg.respect_gitignore
       /\ \E i \in 1..Len(matchers.gitignore) :
              Matcher(matchers.gitignore[i], entry_path)
    \/ /\ cfg.respect_dir2textignore
       /\ \E i \in 1..Len(matchers.dir2textignore) :
              Matcher(matchers.dir2textignore[i], entry_path)

\* The gates of a regular file, each TRUE when the file is skipped.
\* LockSkip comparing the whole name (==) where the code has endswith.
LockSkipWholeName(name) == cfg.exclude_lock_files /\ name = s_lock

LockSkip(name) == cfg.exclude_lock_files /\ EndsWith(name, s_lock)

\* ExtensionSkip with the `not` dropped.
ExtensionSkipInverted(name) ==
    cfg.extension # NoExtension /\ EndsWith(name, cfg.extension)

ExtensionSkip(name) ==
    cfg.extension # NoExtension /\ ~EndsWith(name, cfg.extension)

IncludeSkip(relative_path) ==
    /\ cfg.include_patterns # <<>>
    /\ ~\E i \in 1..Len(cfg.include_patterns) :
            FnMatch(PathStr(relative_path), cfg.include_patterns[i])

ExcludeSkip(relative_path) ==
    \E i \in 1..Len(cfg.exclude_patterns) :
        FnMatch(PathStr(relative_path), cfg.exclude_patterns[i])

\* RejectingGate with the exclude patterns tested before the lock-file
\* suffix and the extension.
RejectingGateExcludeFirst(matchers, entry_path) ==
    LET relative_path == RelativeTo(entry_path, Directory)
    IN IF ExcludeSkip(relative_path) THEN "exclude"
       ELSE IF LockSkip(Name(entry_path)) THEN "lock"
       ELSE IF ExtensionSkip(Name(entry_path)) THEN "extension"
       ELSE IF IncludeSkip(relative_path) THEN "include"
       ELSE IF IsIgnored(matchers, entry_path) THEN "ignore"
       ELSE "none"

\* Lines 295-335: the chain of `if ...: continue`; the gate whose `continue`
\* is taken, or "none" when the file reaches matches.append.
RejectingGate(matchers, entry_path) ==
    LET relative_path == RelativeTo(entry_path, Directory)
    IN IF LockSkip(Name(entry_path)) THEN "lock"
       ELSE IF ExtensionSkip(Name(entry_path)) THEN "extension"
       ELSE IF IncludeSkip(relative_path) THEN "include"
       ELSE IF ExcludeSkip(relative_path) THEN "exclude"
       ELSE IF IsIgnored(matchers, entry_path) THEN "ignore"
       ELSE "none"

FileSkipped(matchers, entry_path) ==
    RejectingGate(matchers, entry_path) # "none"

\* DirSkipped with the .dir2textignore dialect forgotten.
DirSkippedGitignoreOnly(matchers, entry_path) ==
    \/ Name(entry_path) = n_git
    \/ /\ cfg.respect_gitignore
       /\ \E i \in 1..Len(matchers.gitignore) :
              Matcher(matchers.gitignore[i], entry_path)

\* The directories that are not enqueued: '.git', and the ignored ones.
DirSkipped(matchers, entry_path) ==
    \/ Name(entry_path) = n_git
    \/ IsIgnored(matchers, entry_path)

\* sorted(matches, key=str): by the path strings.
RECURSIVE InsertByStr(_, _)
InsertByStr(x, s) ==
    IF s = <<>> THEN <<x>>
    ELSE IF StrLess(PathStr(x), PathStr(Head(s))) THEN <<x>> \o s
    ELSE <<Head(s)>> \o InsertByStr(x, Tail(s))

RECURSIVE SortedByStr(_)
SortedByStr(s) ==
    IF s = <<>> THEN <<>>
    ELSE InsertByStr(s[Len(s)], SortedByStr(SubSeq(s, 1, Len(s) - 1)))

\* ReturnValue sorting the path strings.
ReturnValueByStr(ms) ==
    LET sorted == SortedByStr(ms)
    IN [i \in 1..Len(sorted) |-> RelativeTo(sorted[i], Directory)]

\* ReturnValue without the sort.
ReturnValueUnsorted(ms) ==
    [i \in 1..Len(ms) |-> RelativeTo(ms[i], Directory)]

\* matches = [m.relative_to(directory) for m in sorted(matches)]
ReturnValue(ms) ==
    LET sorted == Sorted(ms)
    IN [i \in 1..Len(sorted) |-> RelativeTo(sorted[i], Directory)]

NextPc(rest) == IF rest = {} THEN "loop" ELSE "scan"

NoCur == [dir |-> <<>>, m |-> IgnoreMatchers(<<>>, <<>>)]

\* Lines 236-253: the queue holds the root with the matchers of its ancestors.
Seed ==
    /\ pc = "start"
    /\ queue' = <<[dir |-> Directory, m |-> root_matchers]>>
    /\ enqueued' = <<Directory>>
    /\ pc' = "loop"
    /\ UNCHANGED <<fs, cfg, cur, pending, matches, result, visited, used, warned>>
    /\ UNCHANGED rejected
    /\ UNCHANGED resVars
    /\ UNCHANGED rendVars

\* Lines 256-268: the head of the queue is popped and listed.
PopDirectory ==
    /\ pc = "loop"
    /\ queue # <<>>
    /\ Head(queue).dir \notin fs.denied
    /\ LET current_dir == Head(queue).dir
           combined == combined_matchers(Head(queue).m, current_dir)
       IN /\ queue' = Tail(queue)
          /\ cur' = [dir |-> current_dir, m |-> combined]
          /\ pending' = Scandir(current_dir)
          /\ pc' = NextPc(Scandir(current_dir))
          /\ visited' = Append(visited, current_dir)
          /\ used' = used \cup {[dir |-> current_dir, m |-> combined]}
    /\ UNCHANGED <<fs, cfg, matches, result, enqueued, warned>>
    /\ UNCHANGED rejected
    /\ UNCHANGED resVars
    /\ UNCHANGED rendVars

\* PermissionDenied with the exception caught outside the loop: the rest of
\* the queue is dropped.
PermissionDeniedAborts ==
    /\ pc = "loop"
    /\ queue # <<>>
    /\ Head(queue).dir \in fs.denied
    /\ queue' = <<>>
    /\ visited' = Append(visited, Head(queue).dir)
    /\ warned' = warned \cup {Head(queue).dir}
    /\ UNCHANGED <<fs, cfg, pc, cur, pending, matches, result, enqueued, used>>
    /\ UNCHANGED rejected
    /\ UNCHANGED resVars
    /\ UNCHANGED rendVars

\* Lines 337-339: listing the directory raises PermissionError; the warning
\* is logged and the loop continues with the next queued directory.
PermissionDenied ==
    /\ pc = "loop"
    /\ queue # <<>>
    /\ Head(queue).dir \in fs.denied
    /\ queue' = Tail(queue)
    /\ visited' = Append(visited, Head(queue).dir)
    /\ warned' = warned \cup {Head(queue).dir}
    /\ UNCHANGED <<fs, cfg, pc, cur, pending, matches, result, enqueued, used>>
    /\ UNCHANGED rejected
    /\ UNCHANGED resVars
    /\ UNCHANGED rendVars

\* ScanDirEntry appending the subdirectory to the queue twice.
ScanDirEntryTwice ==
    /\ pc = "scan"
    /\ \E entry_path \in pending \cap fs.dirs :
          /\ pending' = pending \ {entry_path}
          /\ pc' = NextPc(pending \ {entry_path})
          /\ IF DirSkipped(cur.m, entry_path)
             THEN UNCHANGED <<queue, enqueued>>
             ELSE /\ queue' = queue \o <<[dir |-> entry_path, m |-> cur.m],
                                         [dir |-> entry_path, m |-> cur.m]>>
                  /\ enqueued' = Append(enqueued, entry_path)
    /\ UNCHANGED <<fs, cfg, cur, matches, result, visited, used, warned>>
    /\ UNCHANGED rejected
    /\ UNCHANGED resVars
    /\ UNCHANGED rendVars

\* Lines 272-293: one directory entry of the listing, in whatever order
\* os.scandir yields it.
ScanDirEntry ==
    /\ pc = "scan"
    /\ \E entry_path \in pending \cap fs.dirs :
          /\ pending' = pending \ {entry_path}
          /\ pc' = NextPc(pending \ {entry_path})
          /\ IF DirSkipped(cur.m, entry_path)
             THEN UNCHANGED <<queue, enqueued>>
             ELSE /\ queue' = Append(queue, [dir |-> entry_path, m |-> cur.m])
                  /\ enqueued' = Append(enqueued, entry_path)
    /\ UNCHANGED <<fs, cfg, cur, matches, result, visited, used, warned>>
    /\ UNCHANGED rejected
    /\ UNCHANGED resVars
    /\ UNCHANGED rendVars

\* Lines 295-335: one regular file of the listing.
ScanFileEntry ==
    /\ pc = "scan"
    /\ \E entry_path \in pending \ fs.dirs :
          /\ pending' = pending \ {entry_path}
          /\ pc' = NextPc(pending \ {entry_path})
          /\ matches' = IF FileSkipped(cur.m, entry_path)
                        THEN matches ELSE Append(matches, entry_path)
          /\ rejected' =
                 IF FileSkipped(cur.m, entry_path)
                 THEN rejected \cup
                          {[file |-> entry_path,
                            gate |-> RejectingGate(cur.m, entry_path)]}
                 ELSE rejected
    /\ UNCHANGED <<fs, cfg, queue, cur, result, visited, enqueued, used, warned>>
    /\ UNCHANGED resVars
    /\ UNCHANGED rendVars

\* Lines 341-343: the queue is empty; the sorted relative paths are returned.
Return ==
    /\ pc = "loop"
    /\ queue = <<>>
    /\ result' = ReturnValue(matches)
    /\ pc' = "done"
    /\ UNCHANGED <<fs, cfg, queue, cur, pending, matches, visited, enqueued,
                   used, warned>>
    /\ UNCHANGED rejected
    /\ UNCHANGED resVars
    /\ UNCHANGED rendVars

ResolveIdle ==
    /\ paths = <<>>
    /\ cwd = {}
    /\ rpc = "idle"
    /\ ridx = 0
    /\ resolved_paths = <<>>

\* find_files_bfs called on its own: no renderer runs.
RenderIdle ==
    /\ renderer = "none"
    /\ args = <<>>
    /\ proc_cwd = Directory
    /\ rdpc = "idle"
    /\ all_files = <<>>
    /\ opened = <<>>

\* The state at the call of find_files_bfs.
InitCall ==
    /\ pc = "start"
    /\ queue = <<>>
    /\ cur = NoCur
    /\ pending = {}
    /\ matches = <<>>
    /\ result = <<>>
    /\ visited = <<>>
    /\ enqueued = <<>>
    /\ used = {}
    /\ warned = {}
    /\ rejected = {}
    /\ ResolveIdle
    /\ RenderIdle

Init ==
    /\ \E s \in Scenarios : fs = s.fs /\ cfg = s.cfg
    /\ InitCall

Next ==
    \/ Seed
    \/ PopDirectory
    \/ PermissionDenied
    \/ ScanDirEntry
    \/ ScanFileEntry
    \/ Return

Spec == Init /\ [][Next]_vars

\* The runs on a filesystem with unreadable directories; the function is one
\* thread that runs until it returns.
InitDenied == Init /\ [fs |-> fs, cfg |-> cfg] \in DeniedScenarios

SpecDenied == InitDenied /\ [][Next]_vars /\ WF_vars(Next)

\* The runs with the default options on trees with or without a .gitignore
\* in the root that prunes sub, with and without unreadable directories.
TermScenarios ==
    UNION {{[fs |-> MakeFs(t, r, d), cfg |-> DefaultConfig] :
              r \in {NoRules, (Directory \o <<n_gitignore>>) :> <<s_sub_slash>>},
              d \in {D \in SUBSET t.dirs : Cardinality(D) <= MaxDenied}} :
           t \in {TreeDeep, TreeOrder, TreeEmpty}}

InitTerm ==
    /\ \E s \in TermScenarios : fs = s.fs /\ cfg = s.cfg
    /\ InitCall

SpecTerm == InitTerm /\ [][Next]_vars /\ WF_vars(Next)

(***************************************************************************)
(* resolve_paths (_util.py).  The working directory is the set of the      *)
(* names it holds.                                                         *)
(***************************************************************************)
\* Path(s): the components of s between '/', without the empty ones and
\* without '.'; anchored when s starts with '/'.
RECURSIVE SplitParts(_, _)
SplitParts(s, acc) ==
    LET keep == IF acc = <<>> \/ acc = <<".">> THEN <<>> ELSE <<acc>>
    IN IF s = <<>> THEN keep
       ELSE IF Head(s) = "/" THEN keep \o SplitParts(Tail(s), <<>>)
       ELSE SplitParts(Tail(s), Append(acc, Head(s)))

PathOf(s) ==
    [anchored |-> s # <<>> /\ Head(s) = "/", parts |-> SplitParts(s, <<>>)]

HasChar(s, chars) == \E i \in 1..Len(s) : s[i] \in chars

\* any(char in path_pattern for char in "*?[]")
IsPattern(path_pattern) == HasChar(path_pattern, {"*", "?", "[", "]"})

\* glob.glob(pattern) for a pattern without a directory part: without the
\* magic characters '*?[' the pattern itself when it exists; with them the
\* names of the working directory that fnmatch, hidden names only for a
\* pattern that starts with '.'.
GlobSet(pattern) ==
    IF ~HasChar(pattern, {"*", "?", "["})
    THEN IF pattern \in cwd THEN {pattern} ELSE {}
    ELSE {name \in cwd :
            /\ FnMatch(name, pattern)
            /\ Head(pattern) = "." \/ Head(name) # "."}

\* The orders in which glob may list a set of names.
Orders(S) ==
    {q \in [1..Cardinality(S) -> S] :
        \A i, j \in 1..Cardinality(S) : i # j => q[i] # q[j]}

\* Expansion with an existence check of the literal path.
ExpansionOfExisting(path_pattern, glob_paths) ==
    IF IsPattern(path_pattern)
    THEN [i \in 1..Len(glob_paths) |-> PathOf(glob_paths[i])]
    ELSE IF path_pattern \in cwd THEN <<PathOf(path_pattern)>> ELSE <<>>

\* What one spec adds to resolved_paths, for a listing order of the glob.
Expansion(path_pattern, glob_paths) ==
    IF IsPattern(path_pattern)
    THEN [i \in 1..Len(glob_paths) |-> PathOf(glob_paths[i])]
    ELSE <<PathOf(path_pattern)>>

\* Lines 25-28: a single string becomes a list of one spec.
ResolveStart ==
    /\ rpc = "start"
    /\ paths' = [isStr |-> FALSE, val |-> paths.val]
    /\ resolved_paths' = <<>>
    /\ ridx' = 1
    /\ rpc' = "loop"
    /\ UNCHANGED cwd
    /\ UNCHANGED discVars
    /\ UNCHANGED rendVars

\* Lines 29-35: one spec of the list.
ResolveSpec ==
    /\ rpc = "loop"
    /\ ridx <= Len(paths.val)
    /\ \E glob_paths \in Orders(GlobSet(paths.val[ridx])) :
          resolved_paths' =
              resolved_paths \o Expansion(paths.val[ridx], glob_paths)
    /\ ridx' = ridx + 1
    /\ UNCHANGED <<paths, cwd, rpc>>
    /\ UNCHANGED discVars
    /\ UNCHANGED rendVars

\* Line 37
ResolveReturn ==
    /\ rpc = "loop"
    /\ ridx > Len(paths.val)
    /\ rpc' = "done"
    /\ UNCHANGED <<paths, cwd, ridx, resolved_paths>>
    /\ UNCHANGED discVars
    /\ UNCHANGED rendVars

SpecPool == {n_a_py, s_star_py, s_star_md, s_q_py, s_zz, s_dot_a_py, s_a_brk,
             s_star, s_sub_a_py}

WorkingDirs == {{}, {n_b_txt}, {n_a_py, n_d_py, n_b_txt, n_gitignore}}

SpecLists == UNION {[1..n -> SpecPool] : n \in 0..MaxSpecs}

InitResolve ==
    /\ \/ paths \in {[isStr |-> FALSE, val |-> l] : l \in SpecLists}
       \/ paths \in {[isStr |-> TRUE, val |-> <<x>>] : x \in SpecPool}
    /\ cwd \in WorkingDirs
    /\ rpc = "start"
    /\ ridx = 0
    /\ resolved_paths = <<>>
    /\ fs = MakeFs(TreeEmpty, NoRules, {})
    /\ cfg = DefaultConfig
    /\ pc = "idle"
    /\ queue = <<>>
    /\ cur = NoCur
    /\ pending = {}
    /\ matches = <<>>
    /\ result = <<>>
    /\ visited = <<>>
    /\ enqueued = <<>>
    /\ used = {}
    /\ warned = {}
    /\ rejected = {}
    /\ RenderIdle

NextResolve ==
    \/ ResolveStart
    \/ ResolveSpec
    \/ ResolveReturn

SpecResolve == InitResolve /\ [][NextResolve]_vars

(***************************************************************************)
(* The properties.                                                         *)
(***************************************************************************)
Range(q) == {q[i] : i \in 1..Len(q)}

\* The regular files and the subdirectories a listed directory holds.
FilesOf(d) == Scandir(d) \ fs.dirs
SubdirsOf(d) == Scandir(d) \cap fs.dirs

\* Some matcher of an enabled dialect in the rule set answers "ignore".
MatchedByEnabledDialect(m, path) ==
    \/ cfg.respect_gitignore
         /\ \E x \in Range(m.gitignore) : Verdict(x, path) = "ignore"
    \/ cfg.respect_dir2textignore
         /\ \E x \in Range(m.dir2textignore) : Verdict(x, path) = "ignore"

\* C1: a subdirectory matched by the ignore rules of an enabled dialect when
\* its parent is listed is never enqueued, and no file under it is among the
\* matches or in the returned list, whatever the file's name.
C1_PrunedNeverDescended ==
    \A u \in used : \A D \in SubdirsOf(u.dir) :
        MatchedByEnabledDialect(u.m, D) =>
            /\ D \notin Range(enqueued)
            /\ \A q \in Range(queue) : ~IsPrefix(D, q.dir)
            /\ \A f \in Range(matches) : ~IsPrefix(D, f)
            /\ \A r \in Range(result) : ~IsPrefix(D, Directory \o r)

\* C1 witness: the run is over, a subdirectory was matched when its parent
\* was listed, and it holds a file whose own name no rule matches and no
\* other filter rejects.
C1_Witness ==
    /\ pc = "done"
    /\ \E u \in used : \E D \in SubdirsOf(u.dir) :
          /\ MatchedByEnabledDialect(u.m, D)
          /\ \E f \in fs.files :
                /\ IsPrefix(D, f)
                /\ Name(f) = n_d_py
                /\ \A x \in DOMAIN fs.rules : \A i \in 1..Len(fs.rules[x]) :
                       ~RuleMatch(ParseRule(fs.rules[x][i]), <<Name(f)>>)

\* The test the specification describes for one dialect: of the rule files
\* of the list that match the path, the deepest one decides.
DeepestVerdict(list, path) ==
    LET hits == {x \in Range(list) : Verdict(x, path) # "none"}
    IN IF hits = {} THEN "none"
       ELSE Verdict(CHOOSE x \in hits : \A y \in hits : Len(y) <= Len(x), path)

\* C2: the outcome of a dialect's matchers is that of the deepest matcher
\* that matched: a file of a listed directory that passes the other gates and
\* whose deepest matching rule file, in each enabled dialect, does not ignore
\* it is in the returned list.
C2_DeepestMatcherWins ==
    pc = "done" =>
        \A u \in used : \A f \in FilesOf(u.dir) :
            ( /\ ~LockSkip(Name(f))
              /\ ~ExtensionSkip(Name(f))
              /\ ~IncludeSkip(RelativeTo(f, Directory))
              /\ ~ExcludeSkip(RelativeTo(f, Directory))
              /\ cfg.respect_gitignore =>
                     DeepestVerdict(u.m.gitignore, f) # "ignore"
              /\ cfg.respect_dir2textignore =>
                     DeepestVerdict(u.m.dir2textignore, f) # "ignore" )
            => RelativeTo(f, Directory) \in Range(result)

\* C3 as stated: with exclude_lock_files, package-lock.json is not returned
\* and index.ts beside it is.
C3_PackageLockExcluded ==
    (pc = "done" /\ cfg.exclude_lock_files) =>
        /\ <<n_package_lock_json>> \notin Range(result)
        /\ ( /\ Directory \o <<n_index_ts>> \in fs.files
             /\ cfg.extension = NoExtension
             /\ cfg.include_patterns = <<>>
             /\ cfg.exclude_patterns = <<>> )
           => <<n_index_ts>> \in Range(result)

\* C3 amended: with exclude_lock_files, no returned file has a name that ends
\* with ".lock"; package-lock.json does not end with ".lock" and is returned
\* beside index.ts when no other filter is set.
C3_LockSuffixExcluded ==
    (pc = "done" /\ cfg.exclude_lock_files) =>
        /\ \A r \in Range(result) : ~EndsWith(Name(r), s_lock)
        /\ ( /\ Directory \o <<n_index_ts>> \in fs.files
             /\ Directory \o <<n_package_lock_json>> \in fs.files
             /\ cfg.extension = NoExtension
             /\ cfg.include_patterns = <<>>
             /\ cfg.exclude_patterns = <<>>
             /\ fs.rules = NoRules )
           => /\ <<n_index_ts>> \in Range(result)
              /\ <<n_package_lock_json>> \in Range(result)

\* C3 witness: the run is over with exclude_lock_files and no other filter,
\* in a directory that holds package-lock.json, index.ts and poetry.lock.
C3_Witness ==
    /\ pc = "done"
    /\ cfg = DefaultConfig
    /\ {Directory \o <<n_index_ts>>, Directory \o <<n_package_lock_json>>,
        Directory \o <<n_poetry_lock>>} \subseteq fs.files
    /\ Directory \in Range(visited) \ warned

RECURSIVE RuleSetOf(_)
RuleSetOf(d) ==
    IF d = Directory THEN combined_matchers(root_matchers, d)
    ELSE combined_matchers(RuleSetOf(Parent(d)), d)

RECURSIVE Reached(_)
Reached(d) ==
    \/ d = Directory
    \/ /\ Len(d) > Len(Directory)
       /\ Reached(Parent(d))
       /\ Parent(d) \notin fs.denied
       /\ ~DirSkipped(RuleSetOf(Parent(d)), d)

AdmittedSet ==
    {f \in fs.files :
        /\ IsPrefix(Directory, f)
        /\ Reached(Parent(f))
        /\ Parent(f) \notin fs.denied
        /\ ~FileSkipped(RuleSetOf(Parent(f)), f)}

\* The one sequence that lists a set of paths in increasing order.
RECURSIVE Ascending(_)
Ascending(S) ==
    IF S = {} THEN <<>>
    ELSE LET least == CHOOSE x \in S : \A y \in S \ {x} : PathLess(x, y)
         IN <<least>> \o Ascending(S \ {least})

ExpectedResult ==
    LET asc == Ascending(AdmittedSet)
    IN [i \in 1..Len(asc) |-> RelativeTo(asc[i], Directory)]

\* C5: the returned list is determined by the filesystem and the
\* configuration: every order in which the listings yield their entries, and
\* every repeated call, returns the same sequence.
C5_OrderIndependent == pc = "done" => result = ExpectedResult

\* C5 witness: a run is over in which the matches were found in an order
\* that is not the returned one, and two directories were listed.
C5_Witness ==
    /\ pc = "done"
    /\ Len(matches) >= 2
    /\ matches # Sorted(matches)
    /\ Cardinality(used) >= 2

\* C6: with an extension set, every returned file's name ends with it; with
\* none set, every file of a listed directory that the other gates pass is
\* returned.
C6_ExtensionFilter ==
    pc = "done" =>
        /\ cfg.extension # NoExtension =>
               \A r \in Range(result) : EndsWith(Name(r), cfg.extension)
        /\ cfg.extension = NoExtension =>
               \A u \in used : \A f \in FilesOf(u.dir) :
                   ( /\ ~LockSkip(Name(f))
                     /\ ~IncludeSkip(RelativeTo(f, Directory))
                     /\ ~ExcludeSkip(RelativeTo(f, Directory))
                     /\ ~IsIgnored(u.m, f) )
                   => RelativeTo(f, Directory) \in Range(result)

\* C6 witness: the run is over with an extension set, a file with it is
\* returned and a file of a listed directory without it is not.
C6_Witness ==
    /\ pc = "done"
    /\ cfg.extension = s_py
    /\ cfg.include_patterns = <<>>
    /\ <<n_sub, n_d_py>> \in Range(result)
    /\ Directory \o <<n_b_txt>> \in fs.files
    /\ <<n_b_txt>> \notin Range(result)

\* The rule files of a rule set, of both dialects.
RuleFilesIn(m) == Range(m.gitignore) \cup Range(m.dir2textignore)

\* The rule files of directory d that exist and whose dialect is enabled.
EnabledRuleFiles(d) ==
    {x \in {d \o <<n_gitignore>>} : cfg.respect_gitignore /\ Exists(x)}
        \cup {x \in {d \o <<n_dir2textignore>>} :
                cfg.respect_dir2textignore /\ Exists(x)}

\* A rule file of a directory D of the tree is in the rule set of D and of
\* D's descendants, and in no rule set of a directory that is not under D.
C7_Scoped ==
    \A u \in used :
        /\ \A x \in RuleFilesIn(u.m) : IsPrefix(Parent(x), u.dir)
        /\ \A D \in fs.dirs :
               (IsPrefix(Directory, D) /\ IsPrefix(D, u.dir))
                   => EnabledRuleFiles(D) \subseteq RuleFilesIn(u.m)

\* root{a.py, b.txt, sub/.gitignore='*.txt', sub/c.txt, sub/d.py}
ScenarioNested ==
    MakeFs(TreeNested, (Directory \o <<n_sub, n_gitignore>>) :> <<s_star_txt>>, {})

C7_Scenario ==
    ( /\ pc = "done"
      /\ fs = ScenarioNested
      /\ cfg.respect_gitignore
      /\ cfg.extension = NoExtension
      /\ cfg.include_patterns = <<>>
      /\ cfg.exclude_patterns = <<>> )
    => Range(result) = {<<n_a_py>>, <<n_b_txt>>, <<n_sub, n_d_py>>}

\* C7: a rule file found in directory D applies only under D, and the
\* scenario root{a.py, b.txt, sub/.gitignore='*.txt', sub/c.txt, sub/d.py}
\* with gitignore enabled and no other filter returns exactly
\* {a.py, b.txt, sub/d.py}.
C7_RuleFileScoped == C7_Scoped /\ C7_Scenario

\* The directories above the traversal root, the filesystem root included.
AncestorsOfRoot == {SubSeq(Directory, 1, n) : n \in 0..(Len(Directory) - 1)}

\* C8: the rule set the root is enqueued with holds the rule files of every
\* directory above the root, the filesystem root included, and a file of a
\* listed directory that such a rule file of an enabled dialect ignores is
\* not returned.
C8_AncestorRulesSeeded ==
    /\ (pc = "loop" /\ visited = <<>>) =>
           \A A \in AncestorsOfRoot :
               EnabledRuleFiles(A) \subseteq RuleFilesIn(Head(queue).m)
    /\ pc = "done" =>
           \A u \in used : \A f \in FilesOf(u.dir) :
               (\E A \in AncestorsOfRoot : \E x \in EnabledRuleFiles(A) :
                    Verdict(x, f) = "ignore")
               => RelativeTo(f, Directory) \notin Range(result)

\* What holds in every state of a run in which directories raise the
\* permission error.
PermissionErrorSkipsSubtree ==
    /\ \A D \in warned :
          /\ \A d \in Range(enqueued) : d = D \/ ~IsPrefix(D, d)
          /\ \A f \in Range(matches) : ~IsPrefix(D, f)
          /\ \A r \in Range(result) : ~IsPrefix(D, Directory \o r)
    /\ pc = "done" =>
          /\ Range(enqueued) = Range(visited)
          /\ \A f \in Range(matches) :
                 RelativeTo(f, Directory) \in Range(result)
          /\ \A u \in used : \A f \in FilesOf(u.dir) :
                 ~FileSkipped(u.m, f)
                     => RelativeTo(f, Directory) \in Range(result)

\* C9: a permission error on a directory D does not abort the call: nothing
\* under D is enqueued or matched, every directory that was enqueued is
\* dequeued, the files matched and every file of a listed directory that the
\* gates pass are returned, and the function returns.
C9_PermissionErrorNotFatal ==
    /\ []PermissionErrorSkipsSubtree
    /\ <>(pc = "done")

\* C9 witness: the run is over, a directory raised the permission error, a
\* directory with files was listed after it and its file is returned, as is
\* a file matched before the error.
C9_Witness ==
    /\ pc = "done"
    /\ \E i, j \in 1..Len(visited) :
          /\ 1 < i /\ i < j
          /\ visited[i] \in warned
          /\ visited[j] \notin warned
          /\ \E f \in FilesOf(visited[j]) :
                RelativeTo(f, Directory) \in Range(result)
    /\ <<n_a_py>> \in Range(result)

\* A spec holds a wildcard character.
HasWildcard(spec) == \E i \in 1..Len(spec) : spec[i] \in {"*", "?", "[", "]"}

\* The number of entries the i-th spec is to contribute, and the number the
\* specs before it contribute.
EntriesOf(i) ==
    IF HasWildcard(paths.val[i]) THEN Cardinality(GlobSet(paths.val[i])) ELSE 1

RECURSIVE EntriesBefore(_)
EntriesBefore(i) ==
    IF i <= 1 THEN 0 ELSE EntriesBefore(i - 1) + EntriesOf(i - 1)

\* C10: resolve_paths returns the concatenation, in input order, of each
\* spec's entries: the paths glob finds for a spec with a wildcard character
\* (none when nothing matches), and the one literal path of a spec without,
\* whether it exists or not.
C10_ResolveConcatenates ==
    rpc = "done" =>
        LET n == Len(paths.val)
        IN /\ Len(resolved_paths) = EntriesBefore(n + 1)
           /\ \A i \in 1..n :
                 {resolved_paths[EntriesBefore(i) + k] : k \in 1..EntriesOf(i)}
                     = IF HasWildcard(paths.val[i])
                       THEN {PathOf(g) : g \in GlobSet(paths.val[i])}
                       ELSE {PathOf(paths.val[i])}

\* C10 witness: the call has returned for a pattern that matches nothing
\* followed by a literal path that does not exist, in a working directory
\* that holds files.
C10_Witness ==
    /\ rpc = "done"
    /\ paths.val = <<s_star_md, s_zz>>
    /\ n_a_py \in cwd
    /\ resolved_paths = <<PathOf(s_zz)>>

\* The matcher list of the dialect other than the one whose rule files are
\* named `name`.
OtherDialect(m, name) ==
    IF name = n_gitignore THEN m.dir2textignore ELSE m.gitignore

\* Some matcher of the other dialect, in the rule set the parent of the path
\* is listed with, answers "ignore".
IgnoredByOther(path, name) ==
    \E x \in Range(OtherDialect(RuleSetOf(Parent(path)), name)) :
        Verdict(x, path) = "ignore"

\* The directories the traversal reaches when only the other dialect prunes.
RECURSIVE ReachedWithout(_, _)
ReachedWithout(d, name) ==
    \/ d = Directory
    \/ /\ Len(d) > Len(Directory)
       /\ ReachedWithout(Parent(d), name)
       /\ Parent(d) \notin fs.denied
       /\ Name(d) # n_git
       /\ ~IgnoredByOther(d, name)

\* What the call returns on the filesystem in which the rule files called
\* `name` hold no rule; with absent = TRUE, in which they do not exist.
ResultWithout(name, absent) ==
    LET S == {f \in fs.files :
                /\ IsPrefix(Directory, f)
                /\ ~(absent /\ Name(f) = name)
                /\ ReachedWithout(Parent(f), name)
                /\ Parent(f) \notin fs.denied
                /\ ~LockSkip(Name(f))
                /\ ~ExtensionSkip(Name(f))
                /\ ~IncludeSkip(RelativeTo(f, Directory))
                /\ ~ExcludeSkip(RelativeTo(f, Directory))
                /\ ~IgnoredByOther(f, name)}
        asc == Ascending(S)
    IN [i \in 1..Len(asc) |-> RelativeTo(asc[i], Directory)]

\* A file that some matcher of an enabled dialect ignores is not returned.
EitherDialectExcludes ==
    pc = "done" =>
        \A u \in used : \A f \in FilesOf(u.dir) :
            MatchedByEnabledDialect(u.m, f)
                => RelativeTo(f, Directory) \notin Range(result)

\* C11: with respect_gitignore false the returned list is the one of the
\* filesystem without its .gitignore files, likewise for
\* respect_dir2textignore and the .dir2textignore files; with both enabled a
\* path that either dialect matches is excluded.
C11_OnlyEnabledDialects ==
    /\ (pc = "done" /\ ~cfg.respect_gitignore)
           => result = ResultWithout(n_gitignore, TRUE)
    /\ (pc = "done" /\ ~cfg.respect_dir2textignore)
           => result = ResultWithout(n_dir2textignore, TRUE)
    /\ EitherDialectExcludes

\* The rules of a disabled dialect's files have no effect: the returned list
\* is the one of the filesystem in which those files hold no rule.
C11_DisabledRulesInert ==
    /\ (pc = "done" /\ ~cfg.respect_gitignore)
           => result = ResultWithout(n_gitignore, FALSE)
    /\ (pc = "done" /\ ~cfg.respect_dir2textignore)
           => result = ResultWithout(n_dir2textignore, FALSE)
    /\ EitherDialectExcludes

\* ---------------------------------------------------------------------
\* text.find_files_bfs, the discovery of the text renderer, called on
\* Directory with the option values of cfg (it has no exclude_lock_files
\* parameter).

\* One of the two loops `while current_dir != current_dir.parent`: the rule
\* files called `name` of current_dir and of the directories above it.
RECURSIVE text_collect(_, _)
text_collect(current_dir, name) ==
    IF current_dir = Parent(current_dir) THEN <<>>
    ELSE (IF Exists(current_dir \o <<name>>)
          THEN <<current_dir \o <<name>>>> ELSE <<>>)
             \o text_collect(Parent(current_dir), name)

text_gitignore_matchers ==
    IF cfg.respect_gitignore THEN text_collect(Directory, n_gitignore)
    ELSE <<>>

text_dir2textignore_matchers ==
    IF cfg.respect_dir2textignore
    THEN text_collect(Directory, n_dir2textignore)
    ELSE <<>>

\* The directories os.walk yields: the top, and every child of a listable
\* yielded directory that was not removed from dirs ('.git').
RECURSIVE text_walked(_)
text_walked(root) ==
    \/ root = Directory
    \/ /\ Len(root) > Len(Directory)
       /\ root \in fs.dirs
       /\ Name(root) # n_git
       /\ Parent(root) \notin fs.denied
       /\ text_walked(Parent(root))

\* The body of `for file in files`, TRUE when a `continue` is taken.
text_skipped(file_path) ==
    LET relative_path == RelativeTo(file_path, Directory)
    IN \/ \E i \in 1..Len(text_gitignore_matchers) :
              Matcher(text_gitignore_matchers[i], file_path)
       \/ \E i \in 1..Len(text_dir2textignore_matchers) :
              Matcher(text_dir2textignore_matchers[i], file_path)
       \/ /\ cfg.extension # NoExtension
          /\ ~EndsWith(PathStr(file_path), cfg.extension)
       \/ /\ cfg.include_patterns # <<>>
          /\ ~\E i \in 1..Len(cfg.include_patterns) :
                 FnMatch(PathStr(relative_path), cfg.include_patterns[i])
       \/ \E i \in 1..Len(cfg.exclude_patterns) :
              FnMatch(PathStr(relative_path), cfg.exclude_patterns[i])

text_matches ==
    {file_path \in fs.files :
        /\ IsPrefix(Directory, file_path)
        /\ text_walked(Parent(file_path))
        /\ Parent(file_path) \notin fs.denied
        /\ ~text_skipped(file_path)}

\* `return sorted(matches)`: the paths are not made relative to the top.
text_find_files_bfs == Ascending(text_matches)

\* C12: the text renderer's discovery admits the same set of files as the
\* core discovery, for every tree and configuration, nested rule files and
\* lock files included.
C12_TextSameAsCore ==
    pc = "done" =>
        {RelativeTo(text_find_files_bfs[i], Directory) :
            i \in 1..Len(text_find_files_bfs)} = Range(result)

\* The two discoveries agree where the tree has no lock file admitted by
\* the other gates and no rule file below the top.
C12_AgreeWithoutNesting ==
    (/\ pc = "done"
     /\ \A f \in fs.files : ~EndsWith(Name(f), s_lock)
     /\ \A f \in DOMAIN fs.rules : Len(f) <= Len(Directory) + 1)
        => {RelativeTo(text_find_files_bfs[i], Directory) :
               i \in 1..Len(text_find_files_bfs)} = Range(result)

\* A matcher list whose rule files lie in ever deeper directories: ancestors
\* first, and no rule file twice.
RootToLeaf(list) ==
    \A i, j \in 1..Len(list) : i < j => Len(list[i]) < Len(list[j])

\* The rule file of directory d, if it has one, is the last of the list.
OwnFileLast(list, d, name) ==
    Exists(d \o <<name>>)
        => (list # <<>> /\ list[Len(list)] = d \o <<name>>)

\* The rule sets the traversal has built so far: those used to filter a
\* listing and those attached to the queued directories.
BuiltRuleSets == {u.m : u \in used} \cup {queue[i].m : i \in 1..Len(queue)}

\* C15: in every rule set each dialect's matcher list is ordered
\* root-to-leaf and holds each directory's rule file at most once, and the
\* listed directory's own rule file is the last one.
C15_RootToLeafOnce ==
    /\ \A m \in BuiltRuleSets :
           RootToLeaf(m.gitignore) /\ RootToLeaf(m.dir2textignore)
    /\ \A u \in used :
           /\ cfg.respect_gitignore
                  => OwnFileLast(u.m.gitignore, u.dir, n_gitignore)
           /\ cfg.respect_dir2textignore
                  => OwnFileLast(u.m.dir2textignore, u.dir, n_dir2textignore)

\* The half of C15 on immutability: a step changes no rule set of a
\* directory that stays queued, and the rule set a directory is listed with
\* is the one it was queued with plus its own matchers.
C15_QueuedSetUnchanged ==
    [][/\ \/ queue # <<>> /\ queue' = Tail(queue)
          \/ \A i \in 1..Len(queue) :
                 i <= Len(queue') /\ queue'[i] = queue[i]
       /\ (pc = "loop" /\ queue # <<>> /\ Head(queue).dir \notin fs.denied
              /\ queue' = Tail(queue))
              => cur'.m = combined_matchers(Head(queue).m, Head(queue).dir)]_vars

\* The five gates in the order of the claim.
GateOrder == <<"lock", "extension", "include", "exclude", "ignore">>

\* An enabled dialect ignores the file: with lastWins the verdict of a
\* dialect is that of its deepest matcher that matched, otherwise a dialect
\* ignores what any of its matchers ignores.
DialectIgnores(m, f, lastWins) ==
    IF lastWins
    THEN \/ cfg.respect_gitignore
              /\ DeepestVerdict(m.gitignore, f) = "ignore"
         \/ cfg.respect_dir2textignore
              /\ DeepestVerdict(m.dir2textignore, f) = "ignore"
    ELSE MatchedByEnabledDialect(m, f)

\* File f, listed under rule set m, fails the gate g.
GateFails(g, m, f, lastWins) ==
    LET rel == PathStr(RelativeTo(f, Directory))
    IN CASE g = "lock" ->
              cfg.exclude_lock_files /\ EndsWith(Name(f), s_lock)
         [] g = "extension" ->
              cfg.extension # NoExtension /\ ~EndsWith(Name(f), cfg.extension)
         [] g = "include" ->
              /\ cfg.include_patterns # <<>>
              /\ \A p \in Range(cfg.include_patterns) : ~FnMatch(rel, p)
         [] g = "exclude" ->
              \E p \in Range(cfg.exclude_patterns) : FnMatch(rel, p)
         [] g = "ignore" -> DialectIgnores(m, f, lastWins)

FailingGates(m, f, lastWins) ==
    {i \in 1..Len(GateOrder) : GateFails(GateOrder[i], m, f, lastWins)}

\* Every file of a listed directory is returned exactly when no gate fails,
\* and a file with a failing gate was rejected by the first failing gate of
\* GateOrder and by no other.
GatesDecide(lastWins) ==
    pc = "done" =>
        \A u \in used : \A f \in FilesOf(u.dir) :
            LET F == FailingGates(u.m, f, lastWins)
                first == CHOOSE i \in F : \A j \in F : i <= j
            IN /\ (RelativeTo(f, Directory) \in Range(result)) <=> (F = {})
               /\ {r \in rejected : r.file = f} =
                      IF F = {} THEN {}
                      ELSE {[file |-> f, gate |-> GateOrder[first]]}

\* C14: a regular file of a visited directory is in the result if and only
\* if it passes the five gates (lock file, extension, include, exclude, no
\* enabled dialect ignores it), the gates are evaluated in that order, and
\* the first failing gate rejects the file.
C14_FiveGates == GatesDecide(TRUE)

\* The same with the fifth gate read as the test of lines 319-331: some
\* matcher of an enabled dialect ignores the file.
C14_GatesInOrder == GatesDecide(FALSE)

\* A file that fails two gates was rejected by the earlier one.
C14_Witness ==
    /\ pc = "done"
    /\ \E u \in used : \E f \in FilesOf(u.dir) :
           /\ Cardinality(FailingGates(u.m, f, FALSE)) > 1
           /\ \E r \in rejected : r.file = f
    /\ result # <<>>

\* The directories reachable from the root through directories that are
\* neither pruned nor '.git'; with listable, through directories whose
\* listing does not raise PermissionError.
RECURSIVE TreeReachable(_, _)
TreeReachable(d, listable) ==
    \/ d = Directory
    \/ /\ Len(d) > Len(Directory)
       /\ d \in fs.dirs
       /\ TreeReachable(Parent(d), listable)
       /\ Name(d) # n_git
       /\ ~MatchedByEnabledDialect(RuleSetOf(Parent(d)), d)
       /\ listable => Parent(d) \notin fs.denied

\* At the return the queue is empty, the directories dequeued are the
\* reachable ones, each dequeued once, and an empty root gives an empty list.
TerminalState(listable) ==
    pc = "done" =>
        /\ queue = <<>>
        /\ Range(visited) = {d \in fs.dirs : TreeReachable(d, listable)}
        /\ \A i, j \in 1..Len(visited) : visited[i] = visited[j] => i = j
        /\ Scandir(Directory) = {} => result = <<>>

\* C16 as stated: at termination every directory reachable from the root
\* through non-pruned, non-'.git' directories has been dequeued exactly once
\* and no other directory has.
C16_AllReachableDequeued == TerminalState(FALSE)

\* C16: the loop terminates with an empty queue; every directory reachable
\* from the root through listable, non-pruned, non-'.git' directories has
\* been dequeued exactly once and no other has; an empty root yields the
\* empty list.
C16_Terminates ==
    /\ <>(pc = "done")
    /\ []TerminalState(TRUE)

\* The run is over on a tree with a '.git' directory; a directory whose
\* listing raised PermissionError was dequeued once, its subdirectory never,
\* and another directory was listed.
C16_Witness ==
    /\ pc = "done"
    /\ Directory \o <<n_git>> \in fs.dirs
    /\ Len(visited) > 1
    /\ \E D \in fs.denied \cap Range(visited) :
           /\ SubdirsOf(D) # {}
           /\ SubdirsOf(D) \cap Range(visited) = {}

\* An empty root directory is listed and the empty list is returned.
C16_EmptyRootWitness ==
    pc = "done" /\ Scandir(Directory) = {} /\ visited = <<Directory>>
        /\ result = <<>>

(***************************************************************************)
(* The markdown and xml renderers: main calls find_files_bfs on the         *)
(* directory it was given, here Directory, and reads every file of the     *)
(* list.  proc_cwd is the working directory of the process.                *)
(***************************************************************************)

\* The parameters of _util.find_files_bfs, in the order of its signature.
Parameters ==
    <<"directory", "extension", "include_patterns", "exclude_patterns",
      "exclude_lock_files", "respect_gitignore", "respect_dir2textignore">>

\* The positional arguments of the call in markdown.main.
MarkdownArguments ==
    <<Directory, args.extension, args.include, args.exclude,
      args.gitignore, args.dir2textignore>>

\* The positional arguments of the call in xml.main.
XmlArguments ==
    <<Directory, args.extension, args.include, args.exclude,
      args.exclude_lock_files, args.gitignore, args.dir2textignore,
      args.output_gitignore, args.output_dir2textignore>>

\* Python accepts a call with no more positional arguments than parameters.
Accepted(positional) == Len(positional) <= Len(Parameters)

\* Each positional argument is bound to the parameter at its position; a
\* parameter without an argument takes its default.
Bind(positional) ==
    LET value == [i \in 1..Len(Parameters) |->
                     IF i <= Len(positional) THEN positional[i]
                     ELSE DefaultConfig[Parameters[i]]]
    IN [name \in DOMAIN DefaultConfig |->
           value[CHOOSE i \in 1..Len(Parameters) : Parameters[i] = name]]

\* The call of find_files_bfs: TypeError when the arguments do not fit the
\* signature, otherwise the function starts with its parameters bound.
CallFindFilesBfs(positional) ==
    /\ rdpc = "call"
    /\ IF Accepted(positional)
       THEN /\ cfg' = Bind(positional)
            /\ pc' = "start"
            /\ rdpc' = "discover"
       ELSE /\ rdpc' = "TypeError"
            /\ UNCHANGED <<cfg, pc>>
    /\ UNCHANGED <<fs, queue, cur, pending, matches, result, visited,
                   enqueued, used, warned, rejected>>
    /\ UNCHANGED resVars
    /\ UNCHANGED <<renderer, args, proc_cwd, all_files, opened>>

MarkdownCall == renderer = "markdown" /\ CallFindFilesBfs(MarkdownArguments)

XmlCall == renderer = "xml" /\ CallFindFilesBfs(XmlArguments)

\* all_files.extend(matching_files)
CollectFiles ==
    /\ rdpc = "discover"
    /\ pc = "done"
    /\ all_files' = all_files \o result
    /\ rdpc' = "read"
    /\ UNCHANGED discVars
    /\ UNCHANGED resVars
    /\ UNCHANGED <<renderer, args, proc_cwd, opened>>

\* One turn of `for file_path in sorted(all_files)`: read_file_content opens
\* file_path, which the system resolves against the working directory.
ReadFileContent ==
    /\ rdpc = "read"
    /\ Len(opened) < Len(all_files)
    /\ LET file_path == Sorted(all_files)[Len(opened) + 1]
           target == proc_cwd \o file_path
       IN /\ opened' = Append(opened, [file_path |-> file_path,
                                       target |-> target])
          /\ rdpc' = IF target \in fs.files THEN "read"
                     ELSE "FileNotFoundError"
    /\ UNCHANGED discVars
    /\ UNCHANGED resVars
    /\ UNCHANGED <<renderer, args, proc_cwd, all_files>>

\* The loop is over; the document is printed.
RenderEnd ==
    /\ rdpc = "read"
    /\ Len(opened) = Len(all_files)
    /\ rdpc' = "end"
    /\ UNCHANGED discVars
    /\ UNCHANGED resVars
    /\ UNCHANGED <<renderer, args, proc_cwd, all_files, opened>>

\* The option values of a command line.
ArgsSets ==
    [extension : {NoExtension, s_py},
     include : {<<>>},
     exclude : {<<>>},
     exclude_lock_files : BOOLEAN,
     gitignore : BOOLEAN,
     dir2textignore : BOOLEAN,
     output_gitignore : {FALSE},
     output_dir2textignore : {FALSE}]

RenderFilesystems ==
    {MakeFs(TreeNested, r, d) :
        r \in {NoRules,
               (Directory \o <<n_gitignore>>) :> <<s_star_txt>>,
               ((<<n_w>> \o <<n_gitignore>>) :> <<s_star_txt>>)
                   @@ ((Directory \o <<n_gitignore>>) :> <<s_star_txt>>)},
        d \in {{}, {Directory \o <<n_sub>>}}}
    \cup {MakeFs(TreeLock, NoRules, {})}

\* main is entered with the parsed options; find_files_bfs is not yet
\* called, the defaults stand for its unbound parameters.
InitRender ==
    /\ fs \in RenderFilesystems
    /\ cfg = DefaultConfig
    /\ pc = "idle"
    /\ queue = <<>>
    /\ cur = NoCur
    /\ pending = {}
    /\ matches = <<>>
    /\ result = <<>>
    /\ visited = <<>>
    /\ enqueued = <<>>
    /\ used = {}
    /\ warned = {}
    /\ rejected = {}
    /\ ResolveIdle
    /\ renderer \in {"markdown", "xml"}
    /\ args \in ArgsSets
    /\ proc_cwd \in {Directory, Parent(Directory)}
    /\ rdpc = "call"
    /\ all_files = <<>>
    /\ opened = <<>>

NextRender ==
    \/ MarkdownCall
    \/ XmlCall
    \/ Seed
    \/ PopDirectory
    \/ PermissionDenied
    \/ ScanDirEntry
    \/ ScanFileEntry
    \/ Return
    \/ CollectFiles
    \/ ReadFileContent
    \/ RenderEnd

SpecRender == InitRender /\ [][NextRender]_vars

\* The configuration the options of the command line stand for.
ConfigOf(a) ==
    Config(a.extension, a.include, a.exclude, a.exclude_lock_files,
           a.gitignore, a.dir2textignore)

\* C13: in the markdown and xml renderers the call of find_files_bfs is
\* accepted by the signature and the function receives the option values
\* extension, include, exclude, exclude_lock_files, gitignore and
\* dir2textignore as the parameters of the same meaning.
C13_ConfigReachesDiscovery ==
    rdpc \notin {"idle", "call"} =>
        /\ rdpc # "TypeError"
        /\ cfg = ConfigOf(args)

\* The markdown half of C13: the parameters received are the options.
C13_MarkdownBinding ==
    (renderer = "markdown" /\ rdpc \notin {"idle", "call"})
        => cfg = ConfigOf(args)

\* The xml half of C13: the call is accepted.
C13_XmlAccepted == renderer = "xml" => rdpc # "TypeError"

\* What markdown.main's call binds: extension, include and exclude arrive;
\* exclude_lock_files receives the gitignore option, respect_gitignore the
\* dir2textignore option, respect_dir2textignore its default.
C13_MarkdownShifted ==
    (renderer = "markdown" /\ rdpc \notin {"idle", "call"})
        => cfg = Config(args.extension, args.include, args.exclude,
                        args.gitignore, args.dir2textignore, TRUE)

\* C17: every path handed to read_file_content denotes the admitted file:
\* the traversal root joined with the file's root-relative path, whatever
\* the working directory, and the read does not fail.
C17_ReadsAdmittedFile ==
    /\ \A i \in 1..Len(opened) :
           opened[i].target = Directory \o opened[i].file_path
    /\ rdpc # "FileNotFoundError"
    /\ rdpc = "end" => Len(opened) = Len(result)

\* The same where the working directory is the traversal root.
C17_ReadsFromRoot == proc_cwd = Directory => C17_ReadsAdmittedFile

\* A run that opened another file than the admitted one without an error:
\* the rule file of the directory above the root.
C17_WrongFileRead ==
    \E i \in 1..Len(opened) :
        /\ opened[i].target # Directory \o opened[i].file_path
        /\ opened[i].target \in fs.files

====
